---- MODULE Spec2Model ----
(***************************************************************************)
(* Model of src/visualization_dashboard.py: the VisualizationDashboard     *)
(* class (store bootstrap, get_collection_stats, text_dashboard,           *)
(* test_search) and main().  The vector store is an external collaborator: *)
(* each of its calls either succeeds or raises, chosen nondeterministically.*)
(***************************************************************************)
EXTENDS Integers, Sequences, FiniteSets

(* ------------------------------ bounds -------------------------------- *)

\* Length of the freely chosen tail of the stored record list.
MaxLen == 2
\* Largest number of leading records with pairwise distinct platform, year
\* and publisher (must exceed TopN for truncation to happen).
MaxWide == 11

(* ------------------------- program constants -------------------------- *)

TopN == 10
TopPublishersShown == 5
BarWidth == 20
NResults == 3

(* --------------------------- Python values ---------------------------- *)
\* A metadata value: a str (sequence of characters), an int, None, or the
\* marker of a key that is not in the mapping.
Str(cs) == [t |-> "str", s |-> cs, n |-> 0]
IntV(k) == [t |-> "int", s |-> <<>>, n |-> k]
Null == [t |-> "null", s |-> <<>>, n |-> 0]
Absent == [t |-> "absent", s |-> <<>>, n |-> 0]

UnknownStr == <<"U", "n", "k", "n", "o", "w", "n">>
Unknown == Str(UnknownStr)
NoneStr == <<"N", "o", "n", "e">>

AsciiDigits == <<"0", "1", "2", "3", "4", "5", "6", "7", "8", "9">>

\* Characters str.isdigit() accepts: the decimal digits and digit-like
\* characters such as SUPERSCRIPT TWO (written "sup2"), which int() rejects.
IsDigitChar(c) == c \in {AsciiDigits[i] : i \in 1..10} \cup {"sup2"}
IsDecimalChar(c) == c \in {AsciiDigits[i] : i \in 1..10}
DigitVal(c) == (CHOOSE i \in 1..10 : AsciiDigits[i] = c) - 1

\* Code points of the characters used, for str comparison.
Ord(c) ==
    CASE c = "-" -> 45
      [] c = "." -> 46
      [] IsDecimalChar(c) -> 48 + DigitVal(c)
      [] c = "B" -> 66
      [] c = "G" -> 71
      [] c = "N" -> 78
      [] c = "P" -> 80
      [] c = "U" -> 85
      [] c = "e" -> 101
      [] c = "k" -> 107
      [] c = "n" -> 110
      [] c = "o" -> 111
      [] c = "w" -> 119
      [] c = "sup2" -> 178
      [] OTHER -> 255

RECURSIVE DecStr(_)
\* str(n) for an int n >= 0
DecStr(n) ==
    IF n < 10 THEN <<AsciiDigits[n + 1]>>
    ELSE DecStr(n \div 10) \o <<AsciiDigits[(n % 10) + 1]>>

\* str(v), as applied to the year at line 62
PyStr(v) ==
    CASE v.t = "str" -> v.s
      [] v.t = "int" -> IF v.n < 0 THEN <<"-">> \o DecStr(-v.n) ELSE DecStr(v.n)
      [] OTHER -> NoneStr

\* y.isdigit()
IsDigit(cs) == Len(cs) > 0 /\ \A i \in 1..Len(cs) : IsDigitChar(cs[i])

\* int(y) succeeds (for a y that passed isdigit)
IntParses(cs) == Len(cs) > 0 /\ \A i \in 1..Len(cs) : IsDecimalChar(cs[i])

RECURSIVE PyInt(_)
\* int(y) for a string of decimal digits
PyInt(cs) ==
    IF Len(cs) = 0 THEN 0
    ELSE 10 * PyInt(SubSeq(cs, 1, Len(cs) - 1)) + DigitVal(cs[Len(cs)])

RECURSIVE StrLess(_, _)
\* a < b on str: lexicographic by code point
StrLess(a, b) ==
    IF Len(b) = 0 THEN FALSE
    ELSE IF Len(a) = 0 THEN TRUE
    ELSE IF Ord(a[1]) # Ord(b[1]) THEN Ord(a[1]) < Ord(b[1])
    ELSE StrLess(Tail(a), Tail(b))

(* ------------------------------ records ------------------------------- *)

\* One entry of all_docs['metadatas']: a mapping, or None (none = TRUE).
Meta(pl, yr, ge, pu) ==
    [none |-> FALSE, Platform |-> pl, YearOfRelease |-> yr, Genre |-> ge,
     Publisher |-> pu]
NoneMeta ==
    [none |-> TRUE, Platform |-> Absent, YearOfRelease |-> Absent,
     Genre |-> Absent, Publisher |-> Absent]

\* Variant of MetaGet: a value of None is replaced by the default as well.
MetaGet_NullAsDefault(m, field, default) ==
    IF m[field].t \in {"absent", "null"} THEN default ELSE m[field]

\* metadata.get(field, default)
MetaGet(m, field, default) ==
    IF m[field].t = "absent" THEN default ELSE m[field]

(* ------------------------- ordered dictionaries ----------------------- *)
\* A dict is the sequence of its items [k, c] in insertion order.

DictHas(d, key) == \E i \in 1..Len(d) : d[i].k = key

\* Variant of DictIncr: a key already present keeps its count.
DictIncr_NoIncrement(d, key) ==
    IF DictHas(d, key) THEN d ELSE Append(d, [k |-> key, c |-> 1])

\* d[key] = d.get(key, 0) + 1
DictIncr(d, key) ==
    IF DictHas(d, key)
    THEN [i \in 1..Len(d) |-> IF d[i].k = key THEN [d[i] EXCEPT !.c = @ + 1] ELSE d[i]]
    ELSE Append(d, [k |-> key, c |-> 1])

RECURSIVE SumCounts(_)
SumCounts(d) == IF Len(d) = 0 THEN 0 ELSE d[1].c + SumCounts(Tail(d))

\* max(d.values()) for a non-empty d
MaxCount(d) == CHOOSE m \in {d[i].c : i \in 1..Len(d)} : \A i \in 1..Len(d) : d[i].c <= m

Take(s, n) == SubSeq(s, 1, IF Len(s) < n THEN Len(s) ELSE n)
LastN(s, n) == SubSeq(s, IF Len(s) > n THEN Len(s) - n + 1 ELSE 1, Len(s))

\* Variant of InsertByCount: e goes before the items of equal count, which
\* reverses the order of ties.
InsertByCount_Unstable(s, e) ==
    LET p == Cardinality({i \in 1..Len(s) : s[i].c > e.c})
    IN SubSeq(s, 1, p) \o <<e>> \o SubSeq(s, p + 1, Len(s))

\* Insert e after every item whose count is >= e.c .
InsertByCount(s, e) ==
    LET p == Cardinality({i \in 1..Len(s) : s[i].c >= e.c})
    IN SubSeq(s, 1, p) \o <<e>> \o SubSeq(s, p + 1, Len(s))

RECURSIVE SortByCountFrom(_, _, _)
SortByCountFrom(d, i, acc) ==
    IF i > Len(d) THEN acc ELSE SortByCountFrom(d, i + 1, InsertByCount(acc, d[i]))

\* sorted(d.items(), key=lambda x: x[1], reverse=True): stable
SortedByCountDesc(d) == SortByCountFrom(d, 1, <<>>)

\* Insert e before the first item with a larger key (keys are distinct str).
InsertByKey(s, e) ==
    LET p == Cardinality({i \in 1..Len(s) : StrLess(s[i].k.s, e.k.s)})
    IN SubSeq(s, 1, p) \o <<e>> \o SubSeq(s, p + 1, Len(s))

RECURSIVE SortByKeyFrom(_, _, _)
SortByKeyFrom(d, i, acc) ==
    IF i > Len(d) THEN acc ELSE SortByKeyFrom(d, i + 1, InsertByKey(acc, d[i]))

\* sorted(d.items()) for str keys
SortedByKey(d) == SortByKeyFrom(d, 1, <<>>)

(* ------------------------ get_collection_stats ------------------------ *)

\* The stats dict: has_total / has_tables say which keys it holds
\* ('total_games'; 'platforms', 'years', 'genres', 'publishers').
EmptyStats ==
    [has_total |-> FALSE, total_games |-> 0, has_tables |-> FALSE,
     platforms |-> <<>>, years |-> <<>>, genres |-> <<>>, publishers |-> <<>>]

EmptyTables == [platforms |-> <<>>, years |-> <<>>, genres |-> <<>>, publishers |-> <<>>]

\* One iteration of the loop over all_docs['metadatas'].
CountRecord(acc, m) ==
    [platforms |-> DictIncr(acc.platforms, MetaGet(m, "Platform", Unknown)),
     years |-> DictIncr(acc.years, Str(PyStr(MetaGet(m, "YearOfRelease", Unknown)))),
     genres |-> DictIncr(acc.genres, MetaGet(m, "Genre", Unknown)),
     publishers |-> DictIncr(acc.publishers, MetaGet(m, "Publisher", Unknown))]

RECURSIVE ScanFrom(_, _, _)
\* The loop; metadata.get on a None entry raises AttributeError.
ScanFrom(metas, i, acc) ==
    IF i > Len(metas) THEN [raised |-> FALSE, tables |-> acc]
    ELSE IF metas[i].none THEN [raised |-> TRUE, tables |-> acc]
    ELSE ScanFrom(metas, i + 1, CountRecord(acc, metas[i]))

\* The four sorted() assignments that end the try block.
SortTables(t) ==
    [platforms |-> SortedByCountDesc(t.platforms),
     years |-> SortedByKey(t.years),
     genres |-> SortedByCountDesc(t.genres),
     publishers |-> Take(SortedByCountDesc(t.publishers), TopN)]

\* get_collection_stats on collection coll holding metas; the two flags say
\* whether count() and get() raise; count() returns the number of records
\* get() returns.  Result: the returned dict and the store calls and prints
\* made, in order.
get_collection_stats(coll, metas, countRaises, getRaises) ==
    IF coll = "None" THEN [stats |-> EmptyStats, events |-> <<>>]
    ELSE IF countRaises
    THEN [stats |-> EmptyStats, events |-> <<"call:count", "print:stats_error">>]
    ELSE LET withTotal == [EmptyStats EXCEPT !.has_total = TRUE, !.total_games = Len(metas)]
             scan == ScanFrom(metas, 1, EmptyTables)
             sorted == SortTables(scan.tables)
         IN IF ~(Len(metas) > 0)
            THEN [stats |-> withTotal, events |-> <<"call:count">>]
            ELSE IF getRaises \/ scan.raised
            THEN [stats |-> withTotal,
                  events |-> <<"call:count", "call:get", "print:stats_error">>]
            ELSE [stats |-> [withTotal EXCEPT !.has_tables = TRUE,
                                              !.platforms = sorted.platforms,
                                              !.years = sorted.years,
                                              !.genres = sorted.genres,
                                              !.publishers = sorted.publishers],
                  events |-> <<"call:count", "call:get">>]

(* --------------------------- text_dashboard --------------------------- *)

\* "not stats": the dict has no key at all
StatsFalsy(st) == ~st.has_total /\ ~st.has_tables

\* int((count / max(d.values())) * 20); the float expression equals the
\* integer quotient for all counts below 200 (checked exhaustively).
BarLen(count, d) == (count * BarWidth) \div MaxCount(d)

\* Index of the first entry whose key is not a str (format spec "20s"
\* raises on it), Len + 1 when there is none.
FirstBad(entries) ==
    IF \E i \in 1..Len(entries) : entries[i].k.t # "str"
    THEN CHOOSE i \in 1..Len(entries) :
           /\ entries[i].k.t # "str"
           /\ \A j \in 1..(i - 1) : entries[j].k.t = "str"
    ELSE Len(entries) + 1

SectionRaises(entries) == FirstBad(entries) <= Len(entries)

\* The rows a bar-chart loop prints for the displayed entries of table d,
\* up to the row whose formatting raises.
PrintedRows(entries, d) ==
    [i \in 1..(FirstBad(entries) - 1) |->
        [k |-> entries[i].k, c |-> entries[i].c, bar |-> BarLen(entries[i].c, d)]]

\* list(platforms.items())[:10] and list(genres.items())[:10]
TopEntries(d) == Take(d, TopN)
\* sorted(years.items())[-10:]
RecentYears(d) == LastN(SortedByKey(d), TopN)

\* Variant of IsYearKey: only keys of exactly four digits are taken.
IsYearKey_FourDigits(e) == e.k.s # UnknownStr /\ IsDigit(e.k.s) /\ Len(e.k.s) = 4

IsYearKey(e) == e.k.s # UnknownStr /\ IsDigit(e.k.s)
\* the keys the comprehension at line 138 converts
YearKeys(years) == SelectSeq(years, IsYearKey)
YearValues(years) == [i \in 1..Len(YearKeys(years)) |-> PyInt(YearKeys(years)[i].k.s)]
YearValuesRaise(years) ==
    \E i \in 1..Len(YearKeys(years)) : ~IntParses(YearKeys(years)[i].k.s)

SeqMin(s) == CHOOSE m \in {s[i] : i \in 1..Len(s)} : \A i \in 1..Len(s) : m <= s[i]
SeqMax(s) == CHOOSE m \in {s[i] : i \in 1..Len(s)} : \A i \in 1..Len(s) : s[i] <= m

NoSummary == [printed |-> FALSE, lo |-> 0, hi |-> 0, platforms |-> 0, genres |-> 0, publishers |-> 0]

\* Everything text_dashboard does after get_collection_stats returned st:
\* the lines printed (events), the rows of each section, the summary, and
\* whether an exception left the method (raised).
Render(st) ==
    LET pEntries == TopEntries(st.platforms)
        gEntries == TopEntries(st.genres)
        pRaise == SectionRaises(pEntries)
        gRaise == ~pRaise /\ SectionRaises(gEntries)
        afterGenres == ~pRaise /\ ~gRaise
        sRaise == afterGenres /\ YearValuesRaise(st.years)
        vals == YearValues(st.years)
        showSummary == afterGenres /\ ~sRaise /\ Len(vals) > 0
    IN IF StatsFalsy(st)
       THEN [events |-> <<"print:nodata">>, raised |-> FALSE,
             platformBars |-> <<>>, genreBars |-> <<>>, yearBars |-> <<>>,
             publisherList |-> <<>>, summary |-> NoSummary]
       ELSE [events |->
                <<"print:total">>
                \o (IF Len(st.platforms) > 0 THEN <<"print:platforms">> ELSE <<>>)
                \o (IF ~pRaise /\ Len(st.genres) > 0 THEN <<"print:genres">> ELSE <<>>)
                \o (IF afterGenres /\ Len(st.years) > 0 THEN <<"print:years">> ELSE <<>>)
                \o (IF afterGenres /\ Len(st.publishers) > 0 THEN <<"print:publishers">> ELSE <<>>)
                \o (IF showSummary THEN <<"print:summary">> ELSE <<>>)
                \o (IF afterGenres /\ ~sRaise THEN <<"print:footer">> ELSE <<>>),
             raised |-> pRaise \/ gRaise \/ sRaise,
             platformBars |-> PrintedRows(pEntries, st.platforms),
             genreBars |-> IF pRaise THEN <<>> ELSE PrintedRows(gEntries, st.genres),
             yearBars |-> IF afterGenres
                          THEN PrintedRows(RecentYears(st.years), st.years) ELSE <<>>,
             publisherList |-> IF afterGenres
                               THEN Take(st.publishers, TopPublishersShown) ELSE <<>>,
             summary |-> IF showSummary
                         THEN [printed |-> TRUE, lo |-> SeqMin(vals), hi |-> SeqMax(vals),
                               platforms |-> Len(st.platforms), genres |-> Len(st.genres),
                               publishers |-> Len(st.publishers)]
                         ELSE NoSummary]

(* ----------------------------- test_search ---------------------------- *)

\* What the loop over results['metadatas'][0] prints: one row per result,
\* stopping at a None entry (metadata.get raises inside the try).  The
\* Name field enters no statistic and is left out of the records.
SearchRows(hits) ==
    LET bad == {i \in 1..Len(hits) : hits[i].none}
        stop == IF bad = {} THEN Len(hits) + 1
                ELSE CHOOSE i \in bad : \A j \in bad : i <= j
    IN [i \in 1..(stop - 1) |->
          [Platform |-> MetaGet(hits[i], "Platform", Unknown),
           YearOfRelease |-> MetaGet(hits[i], "YearOfRelease", Unknown),
           Genre |-> MetaGet(hits[i], "Genre", Unknown)]]

\* Variant of test_search: the early return on a missing collection is
\* gone, the query is attempted and its failure caught.
test_search_NoGuard(coll, query, outcome, hits) ==
    IF coll = "None" \/ outcome = "raise"
    THEN [events |-> <<"print:search_header", "call:query", "print:search_error">>,
          queries |-> <<query>>, rows |-> <<>>]
    ELSE IF Len(hits) = 0
    THEN [events |-> <<"print:search_header", "call:query", "print:no_results">>,
          queries |-> <<query>>, rows |-> <<>>]
    ELSE [events |-> <<"print:search_header", "call:query", "print:results">>
                     \o (IF \E i \in 1..Len(hits) : hits[i].none
                         THEN <<"print:search_error">> ELSE <<>>),
          queries |-> <<query>>, rows |-> SearchRows(hits)]

\* test_search(query) on collection coll; outcome is what collection.query
\* does: "raise", or return hits (possibly none).
test_search(coll, query, outcome, hits) ==
    IF coll = "None"
    THEN [events |-> <<"print:collection_not_available">>, queries |-> <<>>, rows |-> <<>>]
    ELSE IF outcome = "raise"
    THEN [events |-> <<"print:search_header", "call:query", "print:search_error">>,
          queries |-> <<query>>, rows |-> <<>>]
    ELSE IF Len(hits) = 0
    THEN [events |-> <<"print:search_header", "call:query", "print:no_results">>,
          queries |-> <<query>>, rows |-> <<>>]
    ELSE [events |-> <<"print:search_header", "call:query", "print:results">>
                     \o (IF \E i \in 1..Len(hits) : hits[i].none
                         THEN <<"print:search_error">> ELSE <<>>),
          queries |-> <<query>>, rows |-> SearchRows(hits)]

(* -------------------------------- main -------------------------------- *)

\* args.search: None when the flag is absent, else the text given.
SearchArgs ==
    {[present |-> FALSE, text |-> ""],
     [present |-> TRUE, text |-> ""],
     [present |-> TRUE, text |-> "zelda"]}

\* The default of test_search's query parameter.
DefaultQuery == "racing games"

\* "if args.search:" then test_search(args.search) else test_search()
QueryFor(arg) == IF arg.present /\ arg.text # "" THEN arg.text ELSE DefaultQuery

(* ------------------------ contents of the store ----------------------- *)

\* Record i of a run of records with pairwise distinct platform, year and
\* publisher; genres cycle through three values.
WideRecord(i) ==
    Meta(Str(<<"P">> \o DecStr(i)), IntV(1990 + i),
         Str(<<"G">> \o DecStr(i % 3)), Str(<<"B">> \o DecStr(i)))

Wide(n) == [i \in 1..n |-> WideRecord(i)]

\* Records the free tail is drawn from.
TailRecords ==
    { \* same keys as WideRecord(1), the year given as a str
      Meta(Str(<<"P", "1">>), Str(<<"1", "9", "9", "1">>), Str(<<"G", "1">>), Str(<<"B", "1">>)),
      \* no tracked field at all
      Meta(Absent, Absent, Absent, Absent),
      \* every tracked field present with value None
      Meta(Null, Null, Null, Null),
      \* a two-digit year
      Meta(Str(<<"P", "2">>), Str(<<"9", "8">>), Absent, Str(<<"B", "2">>)),
      \* a year that isdigit() accepts and int() rejects, a non-str genre
      Meta(Absent, Str(<<"sup2">>), IntV(7), Absent),
      \* a None entry in the metadatas list
      NoneMeta }

Tails == UNION {[1..n -> TailRecords] : n \in 0..MaxLen}

RecordLists == {Wide(n) \o t : n \in 0..MaxWide, t \in Tails}

(* ------------------------------- state -------------------------------- *)

VARIABLES
    pc,             \* position in main()
    records,        \* the metadata records the store holds
    searchArg,      \* args.search
    client,         \* self.client: "unset", "persistent", "memory"
    collection,     \* self.collection: "unset", "None", "udaplay_games"
    stats,          \* the dict get_collection_stats returned
    trace,          \* store calls and printed blocks, in order
    platformBars,   \* rows printed by the platform section
    genreBars,      \* rows printed by the genre section
    yearBars,       \* rows printed by the year section
    publisherList,  \* rows printed by the publisher section
    summary,        \* the summary block
    queries,        \* the query texts passed to collection.query
    searchRows,     \* rows printed by test_search
    exc             \* where an exception left main(): "none" if nowhere

vars ==
    <<pc, records, searchArg, client, collection, stats, trace, platformBars,
      genreBars, yearBars, publisherList, summary, queries, searchRows, exc>>

Init ==
    /\ pc = "main"
    /\ records \in RecordLists
    /\ searchArg = [present |-> FALSE, text |-> ""]
    /\ client = "unset"
    /\ collection = "unset"
    /\ stats = EmptyStats
    /\ trace = <<>>
    /\ platformBars = <<>>
    /\ genreBars = <<>>
    /\ yearBars = <<>>
    /\ publisherList = <<>>
    /\ summary = NoSummary
    /\ queries = <<>>
    /\ searchRows = <<>>
    /\ exc = "none"

\* main(): parser.parse_args()
ParseArgs ==
    /\ pc = "main"
    /\ \E a \in SearchArgs : searchArg' = a
    /\ pc' = "init"
    /\ UNCHANGED <<records, client, collection, stats, trace, platformBars, genreBars,
                   yearBars, publisherList, summary, queries, searchRows, exc>>

\* VisualizationDashboard.__init__: what it leaves in client, collection,
\* the trace, and whether chromadb.Client() raised out of it.
DashboardInitResult(persistentOK, memoryOK, collOK) ==
    IF ~persistentOK /\ ~memoryOK
    THEN [client |-> "unset", collection |-> "unset", raised |-> TRUE,
          events |-> <<"call:open_persistent", "call:open_memory">>]
    ELSE [client |-> IF persistentOK THEN "persistent" ELSE "memory",
          collection |-> IF collOK THEN "udaplay_games" ELSE "None",
          raised |-> FALSE,
          events |-> <<"call:open_persistent">>
                     \o (IF persistentOK THEN <<>> ELSE <<"call:open_memory">>)
                     \o <<"call:get_collection">>
                     \o (IF collOK THEN <<>> ELSE <<"print:collection_not_found">>)]

DashboardInit ==
    /\ pc = "init"
    /\ \E persistentOK \in BOOLEAN, memoryOK \in BOOLEAN, collOK \in BOOLEAN :
         LET r == DashboardInitResult(persistentOK, memoryOK, collOK)
         IN /\ client' = r.client
            /\ collection' = r.collection
            /\ trace' = trace \o r.events
            /\ exc' = IF r.raised THEN "__init__" ELSE exc
            /\ pc' = IF r.raised THEN "crashed" ELSE "dashboard"
    /\ UNCHANGED <<records, searchArg, stats, platformBars, genreBars, yearBars,
                   publisherList, summary, queries, searchRows>>

\* text_dashboard: the banner, up to the call of get_collection_stats
TextDashboardBanner ==
    /\ pc = "dashboard"
    /\ trace' = Append(trace, "print:banner")
    /\ pc' = "stats"
    /\ UNCHANGED <<records, searchArg, client, collection, stats, platformBars, genreBars,
                   yearBars, publisherList, summary, queries, searchRows, exc>>

\* stats = self.get_collection_stats()
GetCollectionStats ==
    /\ pc = "stats"
    /\ \E countRaises \in BOOLEAN, getRaises \in BOOLEAN :
         LET r == get_collection_stats(collection, records, countRaises, getRaises)
         IN /\ stats' = r.stats
            /\ trace' = trace \o r.events
    /\ pc' = "render"
    /\ UNCHANGED <<records, searchArg, client, collection, platformBars, genreBars,
                   yearBars, publisherList, summary, queries, searchRows, exc>>

\* text_dashboard: from "if not stats" to its end
TextDashboardRender ==
    /\ pc = "render"
    /\ LET r == Render(stats)
       IN /\ trace' = trace \o r.events
          /\ platformBars' = r.platformBars
          /\ genreBars' = r.genreBars
          /\ yearBars' = r.yearBars
          /\ publisherList' = r.publisherList
          /\ summary' = r.summary
          /\ exc' = IF r.raised THEN "text_dashboard" ELSE exc
          /\ pc' = IF r.raised THEN "crashed" ELSE "search"
    /\ UNCHANGED <<records, searchArg, client, collection, stats, queries, searchRows>>

\* main(): the if/else around test_search, and test_search itself
TestSearch ==
    /\ pc = "search"
    /\ \E outcome \in {"raise", "empty", "hits"} :
         LET hits == IF outcome = "hits" THEN Take(records, NResults) ELSE <<>>
             r == test_search(collection, QueryFor(searchArg), outcome, hits)
         IN /\ trace' = trace \o r.events
            /\ queries' = queries \o r.queries
            /\ searchRows' = r.rows
    /\ pc' = "done"
    /\ UNCHANGED <<records, searchArg, client, collection, stats, platformBars, genreBars,
                   yearBars, publisherList, summary, exc>>

Next ==
    \/ ParseArgs
    \/ DashboardInit
    \/ TextDashboardBanner
    \/ GetCollectionStats
    \/ TextDashboardRender
    \/ TestSearch

Spec == Init /\ [][Next]_vars

(* ===================== properties of the program ====================== *)

InTrace(e) == \E i \in 1..Len(trace) : trace[i] = e
IndexSet(s) == 1..Len(s)

\* text_dashboard has run to its end or to the exception that left it.
RenderDone == pc \in {"search", "done"} \/ (pc = "crashed" /\ exc = "text_dashboard")

\* The value under which a record should be filed for a field, read off the
\* record itself: the field's value (its str() for the year), and the
\* literal "Unknown" when the record has no such field.
KeyOf(m, f) ==
    IF m[f].t = "absent" THEN Unknown
    ELSE IF f = "YearOfRelease" THEN Str(PyStr(m[f])) ELSE m[f]

RecordsWithKey(f, key) == {i \in IndexSet(records) : KeyOf(records[i], f) = key}
DistinctKeys(f) == {KeyOf(records[i], f) : i \in IndexSet(records)}
FirstSeen(f, key) == CHOOSE i \in RecordsWithKey(f, key) : \A j \in RecordsWithKey(f, key) : i <= j

TableKeys(d) == {d[i].k : i \in IndexSet(d)}
CountOf(d, key) == IF DictHas(d, key) THEN (CHOOSE e \in {d[i] : i \in IndexSet(d)} : e.k = key).c ELSE 0

(* -------------------------------- C1 ---------------------------------- *)

\* C1 (as stated): once get_collection_stats has returned the tables, the
\* counts of each of the four tables sum to the number of records scanned.
C1_AllFourSumToRecords ==
    stats.has_tables =>
        /\ SumCounts(stats.platforms) = Len(records)
        /\ SumCounts(stats.years) = Len(records)
        /\ SumCounts(stats.genres) = Len(records)
        /\ SumCounts(stats.publishers) = Len(records)

\* C1 (amended): the platform, year and genre tables each sum to the number
\* of records scanned; the publisher table, cut to its first 10 entries,
\* sums to the number of records whose publisher is one of the retained
\* keys: all records when there are at most 10 distinct publishers, fewer
\* otherwise.
C1_SumsWithTop10Publishers ==
    stats.has_tables =>
        /\ SumCounts(stats.platforms) = Len(records)
        /\ SumCounts(stats.years) = Len(records)
        /\ SumCounts(stats.genres) = Len(records)
        /\ SumCounts(stats.publishers) =
             Cardinality({i \in IndexSet(records) :
                            KeyOf(records[i], "Publisher") \in TableKeys(stats.publishers)})
        /\ Cardinality(DistinctKeys("Publisher")) <= TopN
             => SumCounts(stats.publishers) = Len(records)
        /\ Cardinality(DistinctKeys("Publisher")) > TopN
             => SumCounts(stats.publishers) < Len(records)

\* The tables of a list with more than 10 distinct publishers and a
\* repeated key have been returned.
C1_Witness ==
    /\ stats.has_tables
    /\ Cardinality(DistinctKeys("Publisher")) > TopN
    /\ SumCounts(stats.publishers) < Len(records)
    /\ \E i \in IndexSet(stats.platforms) : stats.platforms[i].c > 1

(* -------------------------------- C2 ---------------------------------- *)

NoValue(m, f) == m[f].t \in {"absent", "null"}
IsLiteral(m, f, cs) == m[f].t = "str" /\ m[f].s = cs

AbsentOrUnknown(f) ==
    {i \in IndexSet(records) :
        records[i][f].t = "absent" \/ IsLiteral(records[i], f, UnknownStr)}
NullIn(f) == {i \in IndexSet(records) : records[i][f].t = "null"}

Before(f, a, b) == a.c > b.c \/ (a.c = b.c /\ FirstSeen(f, a.k) < FirstSeen(f, b.k))

OrderedTable(f, d) ==
    /\ \A i \in IndexSet(d) : d[i].c = Cardinality(RecordsWithKey(f, d[i].k))
    /\ \A i, j \in IndexSet(d) : i < j => Before(f, d[i], d[j])

\* C3: platform and genre tables are in non-increasing count order with
\* ties in first-encountered order; the publisher table has at most 10
\* entries, the first 10 of the publishers in that same order.
C3_SortedAndTop10 ==
    stats.has_tables =>
        /\ OrderedTable("Platform", stats.platforms)
        /\ TableKeys(stats.platforms) = DistinctKeys("Platform")
        /\ OrderedTable("Genre", stats.genres)
        /\ TableKeys(stats.genres) = DistinctKeys("Genre")
        /\ OrderedTable("Publisher", stats.publishers)
        /\ Len(stats.publishers) <= TopN
        /\ Len(stats.publishers) =
             IF Cardinality(DistinctKeys("Publisher")) < TopN
             THEN Cardinality(DistinctKeys("Publisher")) ELSE TopN
        /\ \A key \in DistinctKeys("Publisher") \ TableKeys(stats.publishers) :
             \A i \in IndexSet(stats.publishers) :
                Before("Publisher", stats.publishers[i],
                       [k |-> key, c |-> Cardinality(RecordsWithKey("Publisher", key))])

\* Tables with a tie that scan order decides, a strict descent, and a
\* publisher table that was cut.
C3_Witness ==
    /\ stats.has_tables
    /\ \E i \in IndexSet(stats.genres) :
         /\ i + 2 <= Len(stats.genres)
         /\ stats.genres[i].c = stats.genres[i + 1].c
         /\ stats.genres[i + 1].c > stats.genres[i + 2].c
    /\ Cardinality(DistinctKeys("Publisher")) > TopN
    /\ stats.publishers[1].c > stats.publishers[2].c
    /\ FirstSeen("Publisher", stats.publishers[1].k) > 1

(* -------------------------------- C4 ---------------------------------- *)

ScaledTo(rows, m) == \A i \in IndexSet(rows) : rows[i].bar = (rows[i].c * BarWidth) \div m
TopRowIsFull(rows, m) == \A i \in IndexSet(rows) : rows[i].c = m => rows[i].bar = BarWidth

\* C4: in the platform, genre and year sections every printed bar is
\* floor(count / M * 20) with M the largest count among the entries the
\* section displays, so the displayed entry with the largest count gets a
\* bar of exactly 20.
C4_BarsScaledToDisplayedMax ==
    RenderDone =>
        /\ Len(platformBars) > 0 =>
             /\ ScaledTo(platformBars, MaxCount(TopEntries(stats.platforms)))
             /\ TopRowIsFull(platformBars, MaxCount(TopEntries(stats.platforms)))
        /\ Len(genreBars) > 0 =>
             /\ ScaledTo(genreBars, MaxCount(TopEntries(stats.genres)))
             /\ TopRowIsFull(genreBars, MaxCount(TopEntries(stats.genres)))
        /\ Len(yearBars) > 0 =>
             /\ ScaledTo(yearBars, MaxCount(RecentYears(stats.years)))
             /\ TopRowIsFull(yearBars, MaxCount(RecentYears(stats.years)))

(* -------------------------------- C5 ---------------------------------- *)

NoSectionPrinted ==
    /\ ~InTrace("print:platforms") /\ ~InTrace("print:genres") /\ ~InTrace("print:years")
    /\ ~InTrace("print:publishers") /\ ~InTrace("print:summary")

\* C5: when the collection exists and count() returns 0, text_dashboard
\* prints the "no data" notice and neither the total line nor any section.
C5_EmptyCollectionShowsNoData ==
    (/\ RenderDone
     /\ collection = "udaplay_games"
     /\ Len(records) = 0
     /\ InTrace("call:count") /\ ~InTrace("print:stats_error"))
    => /\ InTrace("print:nodata")
       /\ ~InTrace("print:total")
       /\ NoSectionPrinted

(* -------------------------------- C6 ---------------------------------- *)

DataDependent ==
    {"call:count", "call:get", "call:query", "print:total", "print:platforms",
     "print:genres", "print:years", "print:publishers", "print:summary",
     "print:search_header", "print:results", "print:no_results"}

\* C6: when get_collection fails, the setup instruction is printed, and
\* from then on the run never calls count(), get() or query() and prints
\* neither a dashboard section nor search results.
C6_MissingCollectionSkipsStore ==
    /\ collection = "None" => InTrace("print:collection_not_found")
    /\ \A i \in IndexSet(trace) :
         trace[i] = "print:collection_not_found"
           => \A j \in IndexSet(trace) : j > i => trace[j] \notin DataDependent
    /\ InTrace("print:collection_not_found")
         => /\ queries = <<>> /\ searchRows = <<>>
            /\ platformBars = <<>> /\ genreBars = <<>> /\ yearBars = <<>>
            /\ publisherList = <<>> /\ ~summary.printed

\* A run that found no collection has finished, over a store that holds
\* records, having passed through text_dashboard and test_search.
C6_Witness ==
    /\ pc = "done"
    /\ collection = "None"
    /\ Len(records) > 0
    /\ InTrace("print:nodata")
    /\ InTrace("print:collection_not_available")

(* -------------------------------- C7 ---------------------------------- *)

\* C7: whenever count(), get() or the scan raises inside
\* get_collection_stats, the error is printed, the method returns an empty
\* dict, and text_dashboard takes the "no data" path without a total line.
C7_FailureGivesEmptyStats ==
    InTrace("print:stats_error") =>
        /\ stats = EmptyStats
        /\ RenderDone => /\ InTrace("print:nodata")
                         /\ ~InTrace("print:total")
                         /\ NoSectionPrinted

(* -------------------------------- C8 ---------------------------------- *)

\* C8: whatever the persistent open, get_collection, count, get and query do
\* and whatever the records hold, no exception leaves main().  (An exception
\* of the in-memory open, which leaves client unset, is not among the
\* failures the claim ranges over.)
C8_NoExceptionLeavesMain ==
    client # "unset" => (exc = "none" /\ pc # "crashed")

(* -------------------------------- C9 ---------------------------------- *)

DashboardOutput ==
    {"print:banner", "print:nodata", "print:total", "print:platforms", "print:genres",
     "print:years", "print:publishers", "print:summary", "print:footer"}

\* C9: a run over an existing collection issues exactly one query, after
\* all output of text_dashboard; its text is the --search value whenever the
\* flag is present, and "racing games" when it is absent.  Stated of the
\* runs that reach the end of main(); a run the exception of C8 ends issues
\* no query at all.
C9_OneQueryWithGivenText ==
    (pc = "done" /\ collection = "udaplay_games") =>
        /\ Len(queries) = 1
        /\ queries[1] = IF searchArg.present THEN searchArg.text ELSE "racing games"
        /\ \A i, j \in IndexSet(trace) :
             (trace[i] = "call:query" /\ trace[j] \in DashboardOutput) => j < i

(* -------------------------------- C10 --------------------------------- *)

FourDigitYear(cs) == Len(cs) = 4 /\ IntParses(cs)
MinOver(S) == CHOOSE m \in S : \A x \in S : m <= x
MaxOver(S) == CHOOSE m \in S : \A x \in S : x <= m

====
